---- MODULE Spec2Model ----
(***************************************************************************)
(* Model of gonervirt/media_inventory: the name/size duplicate registry of *)
(* media_inventory.py, the move planner and executor of                    *)
(* reorganize_media.py, the subfolder merger of reorganize_subfolders.py,  *)
(* the fingerprint grouping of remove_duplicates.py and the copier of      *)
(* copy_files_from_excel.py.  Each program is a command-line run: `tool`   *)
(* says which program the behaviour is a run of, `prod` whether --prod was *)
(* given, `pc` where the run stands.                                        *)
(***************************************************************************)
EXTENDS Integers, Sequences, FiniteSets, TLC

VARIABLES
    tool,               \* the program being run
    prod,               \* args.prod
    pc,                 \* position of the run
    files,              \* the disk: path -> content of every regular file
    dirs,               \* the disk: the directories that exist
    denied,             \* the disk: the files shutil.move refuses to move (PermissionError)
    start_files,        \* the files on disk when the run began
    \* ---- media_inventory.scan_directories
    files_to_process,   \* the (name, size) records in scan order
    idx,                \* loop index of the first pass (1-based)
    file_registry,      \* name -> [sizes, count]
    media_files,        \* the records built so far, with 'Duplicate Status'
    run,                \* number of the scan_directories call (1, 2)
    returned,           \* media_files returned by the previous call
    walked,             \* every media file under the roots, in os.walk order
    checkpoint,         \* processed_files.txt: the places in `walked` it lists
    test_limit,         \* args.test (0: not given)
    enable_checkpoints, \* args.enable_checkpoints
    \* ---- reorganize_media
    df,                 \* the inventory rows, in order
    row_i,              \* plan_file_moves: index of the row being planned
    moves,              \* planned moves: <<source, target, status>>
    errors,             \* plan_file_moves: the error list
    status_counts,      \* plan_file_moves: ok / duplicate / error / skipped
    move_i,             \* execute_moves: index of the move being applied
    results,            \* execute_moves: successful / failed / skipped / errors
    pass,               \* 1: first planning run, 2: the run after the apply
    \* ---- reorganize_subfolders (moves and move_i as above)
    walk_order,         \* the directories in the order os.walk discovers them
    empty_dirs,         \* the set of directories queued for removal
    additional_moves,   \* the moves planned by reorganize_by_location
    removal_seen,       \* the members of empty_dirs the removal loop has visited
    outcomes,           \* execute_moves: what it printed for each move it reached
    \* ---- remove_duplicates
    scan_order,         \* the files in the order os.walk lists them
    duplicate_groups,   \* the groups returned by find_duplicates
    group_i,            \* index of the group being processed
    removed,            \* the file_to_remove of every group processed
    \* ---- copy_files_from_excel
    copy_rows,          \* the <<Source, Destination>> rows of the sheet
    copy_i              \* index of the row being copied

common_vars == <<tool, prod, pc>>
disk_vars == <<files, dirs>>
env_vars == <<denied, start_files>>
checkpoint_vars == <<walked, checkpoint, test_limit, enable_checkpoints>>
inventory_vars == <<files_to_process, idx, file_registry, media_files, run, returned,
                    checkpoint_vars>>
planner_vars == <<df, row_i, moves, errors, status_counts, move_i, results, pass>>
plan_vars == <<df, row_i, errors, status_counts, results, pass>>
subfolders_vars == <<walk_order, empty_dirs, additional_moves, removal_seen, outcomes>>
dedup_vars == <<scan_order, duplicate_groups, group_i, removed>>
copy_vars == <<copy_rows, copy_i>>

vars == <<tool, prod, pc, files, dirs, denied, start_files,
          files_to_process, idx, file_registry, media_files, run, returned,
          walked, checkpoint, test_limit, enable_checkpoints,
          df, row_i, moves, errors, status_counts, move_i, results, pass,
          walk_order, empty_dirs, additional_moves, removal_seen, outcomes,
          scan_order, duplicate_groups, group_i, removed,
          copy_rows, copy_i>>

\* what the actions of one program leave alone: the variables of the others,
\* and what the run cannot change
outside_inventory == <<planner_vars, subfolders_vars, dedup_vars, copy_vars, env_vars>>
outside_planner == <<inventory_vars, subfolders_vars, dedup_vars, copy_vars, env_vars>>
outside_subfolders == <<inventory_vars, plan_vars, dedup_vars, copy_vars, env_vars>>
outside_dedup == <<inventory_vars, planner_vars, subfolders_vars, copy_vars, env_vars>>
outside_copy == <<inventory_vars, planner_vars, subfolders_vars, dedup_vars, env_vars>>

(***************************************************************************)
(* Generic helpers                                                         *)
(***************************************************************************)
Range(s) == {s[i] : i \in DOMAIN s}

EmptyMap == [x \in {} |-> x]

\* all sequences over S of length 0..n
SeqsUpTo(S, n) == UNION {[1..k -> S] : k \in 0..n}

(***************************************************************************)
(* The variables of a program that is not the one being run                *)
(***************************************************************************)
\* lines 43-48 and 117-121 of reorganize_media.py: the counters at zero
new_status_counts == [k \in {"ok", "duplicate", "error", "skipped"} |-> 0]
new_results == [successful |-> 0, failed |-> 0, skipped |-> 0, errors |-> <<>>]

InventoryIdle ==
    /\ files_to_process = <<>>
    /\ idx = 0
    /\ file_registry = EmptyMap
    /\ media_files = <<>>
    /\ run = 0
    /\ returned = <<>>
    /\ walked = <<>>
    /\ checkpoint = {}
    /\ test_limit = 0
    /\ enable_checkpoints = FALSE


PlanIdle ==
    /\ df = <<>>
    /\ row_i = 0
    /\ errors = <<>>
    /\ status_counts = new_status_counts
    /\ results = new_results
    /\ pass = 0


MovesIdle ==
    /\ moves = <<>>
    /\ move_i = 0


SubfoldersIdle ==
    /\ walk_order = <<>>
    /\ empty_dirs = {}
    /\ additional_moves = <<>>
    /\ removal_seen = {}
    /\ outcomes = <<>>


DedupIdle ==
    /\ scan_order = <<>>
    /\ duplicate_groups = <<>>
    /\ group_i = 0
    /\ removed = <<>>


CopyIdle ==
    /\ copy_rows = <<>>
    /\ copy_i = 0

(***************************************************************************)
(* media_inventory.py: the name/size registry                              *)
(***************************************************************************)
MaxScan == 3            \* longest scan order enumerated
MaxRuns == 2            \* calls of scan_directories in one behaviour

FileNames == {"a.jpg", "b.jpg"}
FileSizes == {100, 200, 300}

ScanRecords == [file_name : FileNames, size : FileSizes]

\* get_duplicate_status without line 410: a new size is never recorded
get_duplicate_status_forgets_size(filename, filesize, registry) ==
    IF filename \notin DOMAIN registry
    THEN [status |-> "ok",
          registry |-> [n \in DOMAIN registry \cup {filename} |->
                          IF n = filename THEN [sizes |-> {filesize}, count |-> 1]
                          ELSE registry[n]]]
    ELSE [status |-> IF filesize \in registry[filename].sizes THEN "duplicate" ELSE "error",
          registry |-> [registry EXCEPT ![filename].count = @ + 1]]

\* get_duplicate_status(filename, filesize, file_registry): the status returned
\* and the registry as the call leaves it
get_duplicate_status(filename, filesize, registry) ==
    IF filename \notin DOMAIN registry
    THEN [status |-> "ok",
          registry |-> [n \in DOMAIN registry \cup {filename} |->
                          IF n = filename THEN [sizes |-> {filesize}, count |-> 1]
                          ELSE registry[n]]]
    ELSE IF filesize \in registry[filename].sizes
         THEN [status |-> "duplicate",
               registry |-> [registry EXCEPT ![filename].count = @ + 1]]
         ELSE [status |-> "error",
               registry |-> [registry EXCEPT ![filename].count = @ + 1,
                                             ![filename].sizes = @ \cup {filesize}]]

\* a registry that survives from one call of scan_directories to the next
new_file_registry_stale(old) == old

\* line 473: file_registry = {} at the start of the first pass of every call
new_file_registry(old) == EmptyMap

InitInventory ==
    /\ tool = "media_inventory"
    /\ prod = FALSE
    /\ pc = "scan"
    /\ files = EmptyMap
    /\ dirs = {}
    /\ denied = {}
    /\ start_files = files
    /\ files_to_process \in SeqsUpTo(ScanRecords, MaxScan)
    /\ walked = files_to_process
    /\ checkpoint = {}
    /\ test_limit = 0
    /\ enable_checkpoints = FALSE
    /\ idx = 1
    /\ file_registry = new_file_registry(EmptyMap)
    /\ media_files = <<>>
    /\ run = 1
    /\ returned = <<>>
    /\ PlanIdle /\ MovesIdle /\ SubfoldersIdle /\ DedupIdle /\ CopyIdle

\* one iteration of the first pass (lines 477-524); the loop is left at
\* line 481 once idx exceeds the test limit
ScanFile ==
    /\ tool = "media_inventory" /\ pc = "scan"
    /\ idx <= Len(files_to_process)
    /\ ~(test_limit # 0 /\ idx > test_limit)
    /\ LET file_data == files_to_process[idx]
           r == get_duplicate_status(file_data.file_name, file_data.size, file_registry)
       IN  /\ file_registry' = r.registry
           /\ media_files' = Append(media_files,
                  [file_name |-> file_data.file_name, size |-> file_data.size,
                   status |-> r.status])
    /\ idx' = idx + 1
    /\ UNCHANGED <<files_to_process, run, returned, checkpoint_vars>>
    /\ UNCHANGED <<common_vars, disk_vars>>
    /\ UNCHANGED outside_inventory

\* the places in `all` that the checkpoint list `done` does not hold, in order
\* (line 463: file_path not in processed_files)
unprocessed(all, done) ==
    LET places == [i \in 1..Len(all) |-> i]
    IN  SelectSeq(places, LAMBDA i : i \notin done)

\* the loop is over, by exhaustion or by the test limit; with checkpoints on
\* and at least one file to process, processed_files (the files loaded from
\* the checkpoint and those of this call, line 523) is written out (lines
\* 560-563, 276-278); scan_directories returns media_files (line 572)
ScanReturn ==
    /\ tool = "media_inventory" /\ pc = "scan"
    /\ idx > Len(files_to_process) \/ (test_limit # 0 /\ idx > test_limit)
    /\ pc' = "returned"
    /\ checkpoint' = IF enable_checkpoints /\ Len(files_to_process) > 0
                     THEN checkpoint
                          \cup {unprocessed(walked, checkpoint)[j] : j \in 1..(idx - 1)}
                     ELSE checkpoint
    /\ UNCHANGED <<files_to_process, idx, file_registry, media_files, run, returned,
                   walked, test_limit, enable_checkpoints>>
    /\ UNCHANGED <<tool, prod, disk_vars>>
    /\ UNCHANGED outside_inventory

\* the program is run again over the same files in the same order
ScanAgain ==
    /\ tool = "media_inventory" /\ pc = "returned"
    /\ ~enable_checkpoints
    /\ run < MaxRuns
    /\ returned' = media_files
    /\ run' = run + 1
    /\ file_registry' = new_file_registry(file_registry)
    /\ media_files' = <<>>
    /\ idx' = 1
    /\ pc' = "scan"
    /\ UNCHANGED <<tool, prod, disk_vars, files_to_process, checkpoint_vars>>
    /\ UNCHANGED outside_inventory

NextInventory == ScanFile \/ ScanReturn \/ ScanAgain

(***************************************************************************)
(* media_inventory.py --enable-checkpoints: a run stopped by --test and    *)
(* resumed from processed_files.txt                                        *)
(***************************************************************************)
\* the first call: no checkpoint file yet, every file walked is to be processed
InitResume ==
    /\ tool = "media_inventory"
    /\ prod = FALSE
    /\ pc = "scan"
    /\ files = EmptyMap
    /\ dirs = {}
    /\ denied = {}
    /\ start_files = files
    /\ walked \in SeqsUpTo(ScanRecords, MaxScan)
    /\ files_to_process = walked
    /\ checkpoint = {}
    /\ test_limit \in 0..MaxScan
    /\ enable_checkpoints = TRUE
    /\ idx = 1
    /\ file_registry = new_file_registry(EmptyMap)
    /\ media_files = <<>>
    /\ run = 1
    /\ returned = <<>>
    /\ PlanIdle /\ MovesIdle /\ SubfoldersIdle /\ DedupIdle /\ CopyIdle

\* the program is started again without --test: processed_files.txt is loaded
\* (lines 426-431), the files it lists are left out of files_to_process (lines
\* 462-468), and the registry starts empty (line 473)
ScanResume ==
    /\ tool = "media_inventory" /\ pc = "returned"
    /\ enable_checkpoints
    /\ run < MaxRuns
    /\ returned' = media_files
    /\ run' = run + 1
    /\ test_limit' = 0
    /\ files_to_process' = [j \in DOMAIN unprocessed(walked, checkpoint) |->
                               walked[unprocessed(walked, checkpoint)[j]]]
    /\ file_registry' = new_file_registry(file_registry)
    /\ media_files' = <<>>
    /\ idx' = 1
    /\ pc' = "scan"
    /\ UNCHANGED <<tool, prod, disk_vars, walked, checkpoint, enable_checkpoints>>
    /\ UNCHANGED outside_inventory

NextResume == ScanFile \/ ScanReturn \/ ScanResume

(***************************************************************************)
(* Paths.  A directory is the sequence of its components, a file name a    *)
(* record [base, ext] (os.path.splitext), a file path <<directory, name>>. *)
(* The disk is keyed by normalised paths.                                  *)
(***************************************************************************)
join(dir, filename) == <<dir, filename>>
dirname(path) == path[1]
basename(path) == path[2]
splitext(filename) == <<filename.base, filename.ext>>

\* os.path.normpath on the directories of the model: "." components drop out
normpath(dir) == SelectSeq(dir, LAMBDA c : c # ".")

\* os.path.exists of a file path
exists(path, disk) == <<normpath(dirname(path)), basename(path)>> \in DOMAIN disk

\* shutil.move of the file at `path` raises PermissionError
refused(path, den) == <<normpath(dirname(path)), basename(path)>> \in den

\* the directory and every ancestor of it (os.makedirs creates them all)
Ancestors(dir) == {SubSeq(dir, 1, k) : k \in 1..Len(dir)}

\* str.lower() and str.strip() on the strings of the model
lower(s) ==
    CASE s = "France" -> "france"
      [] s = "Italy" -> "italy"
      [] s = "Duplicate" -> "duplicate"
      [] s = "OK" -> "ok"
      [] s = "Error" -> "error"
      [] OTHER -> s

strip(s) ==
    CASE s = " France" -> "France"
      [] s = "Paris " -> "Paris"
      [] OTHER -> s

NA == "<NA>"            \* pd.NA / NaN in a Country or City cell
notna(v) == v # NA

(***************************************************************************)
(* reorganize_media.py: plan_file_moves                                    *)
(***************************************************************************)
MaxRows == 3            \* longest inventory enumerated

root_dir == <<"organized_media">>

\* the collision loop of lines 100-105, entered with the first candidate
\* target_path and counter = 1: the first candidate that does not exist on disk
RECURSIVE resolve_collision(_, _, _, _, _)
resolve_collision(target_path, target_dir, filename, counter, disk) ==
    IF exists(target_path, disk)
    THEN resolve_collision(
             join(target_dir, [base |-> splitext(filename)[1] \o "_" \o ToString(counter),
                               ext |-> splitext(filename)[2]]),
             target_dir, filename, counter + 1, disk)
    ELSE target_path

\* the date segment with the country added whenever it is known, France or not
date_segment_always_country(row) ==
    IF notna(row.city)
    THEN IF notna(row.country)
         THEN row.photo_date.str \o "_" \o strip(row.country) \o "_" \o strip(row.city)
         ELSE row.photo_date.str \o "_" \o strip(row.city)
    ELSE row.photo_date.str

\* lines 66-76: the date segment of the target directory
date_segment(row) ==
    IF notna(row.city)
    THEN IF notna(row.country) /\ lower(strip(row.country)) # "france"
         THEN row.photo_date.str \o "_" \o strip(row.country) \o "_" \o strip(row.city)
         ELSE row.photo_date.str \o "_" \o strip(row.city)
    ELSE row.photo_date.str

\* line 79: target_dir = os.path.join(root_dir, year, date_str)
target_dir_of(row) == root_dir \o <<row.photo_date.year, date_segment(row)>>

\* the file is named <base>_dup<ext> whatever its status
planned_filename_always_dup(filename, duplicate_status) ==
    [base |-> splitext(filename)[1] \o "_dup", ext |-> splitext(filename)[2]]

\* lines 94-97: the name under which a file that moves is planned
planned_filename(filename, duplicate_status) ==
    IF duplicate_status = "error"
    THEN [base |-> splitext(filename)[1] \o "_dup", ext |-> splitext(filename)[2]]
    ELSE filename

\* lines 79-81 and 94-108: the move appended for a row that has to move
planned_move(row, disk) ==
    LET source_path == row.path
        duplicate_status == lower(row.duplicate_status)
        target_dir == target_dir_of(row)
        filename == planned_filename(basename(source_path), duplicate_status)
        target_path == resolve_collision(join(target_dir, filename), target_dir,
                                         filename, 1, disk)
    IN  <<source_path, target_path, duplicate_status>>

\* line 56: status_counts[k] = status_counts.get(k, 0) + 1
count_status(counts, k) ==
    IF k \in DOMAIN counts THEN [counts EXCEPT ![k] = @ + 1]
    ELSE [j \in DOMAIN counts \cup {k} |-> IF j = k THEN 1 ELSE counts[j]]

\* plan_file_moves with the skip test of lines 88-91 left out
plan_row_no_skip(row, acc, disk) ==
    LET source_path == row.path
        duplicate_status == lower(row.duplicate_status)
        counted == [acc EXCEPT !.status_counts = count_status(@, duplicate_status)]
    IN  IF duplicate_status = "duplicate" THEN counted
        ELSE IF ~exists(source_path, disk)
        THEN [counted EXCEPT !.errors = Append(@, <<"Source file not found", source_path>>)]
        ELSE [counted EXCEPT !.moves = Append(@, planned_move(row, disk))]

\* plan_file_moves with the duplicate test of lines 59-60 made case-sensitive
plan_row_exact_case(row, acc, disk) ==
    LET source_path == row.path
        duplicate_status == lower(row.duplicate_status)
        counted == [acc EXCEPT !.status_counts = count_status(@, duplicate_status)]
    IN  IF row.duplicate_status = "duplicate" THEN counted
        ELSE IF ~exists(source_path, disk)
        THEN [counted EXCEPT !.errors = Append(@, <<"Source file not found", source_path>>)]
        ELSE IF normpath(dirname(source_path)) = normpath(target_dir_of(row))
        THEN [counted EXCEPT !.status_counts["skipped"] = @ + 1]
        ELSE [counted EXCEPT !.moves = Append(@, planned_move(row, disk))]

\* plan_file_moves that stops at the first missing source file: the rows after
\* it are left unplanned
plan_row_stops_at_missing(row, acc, disk) ==
    LET source_path == row.path
        duplicate_status == lower(row.duplicate_status)
        counted == [acc EXCEPT !.status_counts = count_status(@, duplicate_status)]
    IN  IF acc.errors # <<>> THEN acc
        ELSE IF duplicate_status = "duplicate" THEN counted
        ELSE IF ~exists(source_path, disk)
        THEN [counted EXCEPT !.errors = Append(@, <<"Source file not found", source_path>>)]
        ELSE IF normpath(dirname(source_path)) = normpath(target_dir_of(row))
        THEN [counted EXCEPT !.status_counts["skipped"] = @ + 1]
        ELSE [counted EXCEPT !.moves = Append(@, planned_move(row, disk))]

\* plan_file_moves with the skip test of lines 88-91 on the paths as written,
\* without os.path.normpath
plan_row_skip_unnormalized(row, acc, disk) ==
    LET source_path == row.path
        duplicate_status == lower(row.duplicate_status)
        counted == [acc EXCEPT !.status_counts = count_status(@, duplicate_status)]
    IN  IF duplicate_status = "duplicate" THEN counted
        ELSE IF ~exists(source_path, disk)
        THEN [counted EXCEPT !.errors = Append(@, <<"Source file not found", source_path>>)]
        ELSE IF dirname(source_path) = target_dir_of(row)
        THEN [counted EXCEPT !.status_counts["skipped"] = @ + 1]
        ELSE [counted EXCEPT !.moves = Append(@, planned_move(row, disk))]

\* plan_file_moves putting each new move at the head of the list
plan_row_prepends(row, acc, disk) ==
    LET source_path == row.path
        duplicate_status == lower(row.duplicate_status)
        counted == [acc EXCEPT !.status_counts = count_status(@, duplicate_status)]
    IN  IF duplicate_status = "duplicate" THEN counted
        ELSE IF ~exists(source_path, disk)
        THEN [counted EXCEPT !.errors = Append(@, <<"Source file not found", source_path>>)]
        ELSE IF normpath(dirname(source_path)) = normpath(target_dir_of(row))
        THEN [counted EXCEPT !.status_counts["skipped"] = @ + 1]
        ELSE [counted EXCEPT !.moves = <<planned_move(row, disk)>> \o @]

\* one iteration of the loop of plan_file_moves (lines 50-111) on `row`:
\* acc = [moves, errors, status_counts] before, the result is acc after
plan_row(row, acc, disk) ==
    LET source_path == row.path
        duplicate_status == lower(row.duplicate_status)
        counted == [acc EXCEPT !.status_counts = count_status(@, duplicate_status)]
        source_dir == normpath(dirname(source_path))
        norm_target_dir == normpath(target_dir_of(row))
    IN  IF duplicate_status = "duplicate" THEN counted
        ELSE IF ~exists(source_path, disk)
        THEN [counted EXCEPT !.errors = Append(@, <<"Source file not found", source_path>>)]
        ELSE IF source_dir = norm_target_dir
        THEN [counted EXCEPT !.status_counts["skipped"] = @ + 1]
        ELSE [counted EXCEPT !.moves = Append(@, planned_move(row, disk))]

\* plan_file_moves (lines 39-113) from row i on: the loop run to its end
RECURSIVE plan_file_moves(_, _, _, _)
plan_file_moves(rows, i, acc, disk) ==
    IF i > Len(rows) THEN acc
    ELSE plan_file_moves(rows, i + 1, plan_row(rows[i], acc, disk), disk)

\* the Duplicate Status column of an inventory: media_inventory's registry run
\* over the (name, size) records of the rows in order
RECURSIVE classify(_, _, _)
classify(recs, i, registry) ==
    IF i > Len(recs) THEN <<>>
    ELSE LET r == get_duplicate_status(recs[i].file_name, recs[i].size, registry)
         IN  <<r.status>> \o classify(recs, i + 1, r.registry)

Photo == [base |-> "a", ext |-> ".jpg"]
PhotoDate == [year |-> "2024", str |-> "2024-05-01"]

\* the inventories enumerated: up to MaxRows rows for files all named a.jpg, all
\* of one date, country and city; row i lies in its own directory in<i> or
\* already in its target directory; its file may have vanished since the scan
Inventories ==
    LET Place == {"inbox", "inplace"}
        rowOf(i, place, size, status) ==
            [path |-> join(IF place = "inbox" THEN <<"in" \o ToString(i)>>
                           ELSE root_dir \o <<"2024", "2024-05-01_Paris">>, Photo),
             size |-> size,
             photo_date |-> PhotoDate,
             country |-> "France",
             city |-> "Paris",
             duplicate_status |-> status]
        build(n, places, sizes) ==
            LET st == classify([i \in 1..n |-> [file_name |-> "a.jpg", size |-> sizes[i]]],
                               1, EmptyMap)
            IN  [i \in 1..n |-> rowOf(i, places[i], sizes[i], st[i])]
    IN  UNION {{build(n, places, sizes) :
                   places \in {pl \in [1..n -> Place] :
                                  Cardinality({i \in 1..n : pl[i] = "inplace"}) <= 1},
                   sizes \in [1..n -> FileSizes]} : n \in 1..MaxRows}

\* the same inventories with the File Path of a last row that lies in its
\* target directory written with a "." component: organized_media/./2024/...
DottedInventories ==
    LET in_place == root_dir \o <<"2024", "2024-05-01_Paris">>
        dotted == root_dir \o <<".", "2024", "2024-05-01_Paris">>
    IN  {[inv EXCEPT ![Len(inv)].path = join(dotted, Photo)] :
            inv \in {v \in Inventories : dirname(v[Len(v)].path) = in_place}}

\* the Country and City cells enumerated: empty, plain, in another letter case,
\* padded with a blank, and a country that is not France
Countries == {NA, "France", "france", " France", "Italy"}
Cities == {NA, "Paris", "Paris "}
PhotoDates == {PhotoDate, [year |-> "2023", str |-> "2023-12-31"]}

\* the one-row inventories of a file in1/a.jpg, of every date, country and city
LocatedInventories ==
    {<<[path |-> join(<<"in1">>, Photo),
        size |-> 100,
        photo_date |-> d,
        country |-> co,
        city |-> ci,
        duplicate_status |-> "ok"]>> : d \in PhotoDates, co \in Countries, ci \in Cities}

\* the Duplicate Status cells as a hand-edited workbook may spell them
capitalize(status) ==
    CASE status = "ok" -> "OK"
      [] status = "duplicate" -> "Duplicate"
      [] status = "error" -> "Error"
      [] OTHER -> status

\* files of earlier runs that may already lie in the target directory; they
\* are in no row of the inventory (enumerated with the inventories whose
\* status cells are in lower case and whose paths are written plainly)
StrayFiles ==
    {<<root_dir \o <<"2024", "2024-05-01_Paris">>, [base |-> "a_dup", ext |-> ".jpg"]>>}

\* main, lines 162-181: the inventory is loaded and planning starts
InitPlanner ==
    /\ tool = "reorganize_media"
    /\ prod \in BOOLEAN
    /\ pc = "plan"
    /\ \/ \E inv \in Inventories, caps \in BOOLEAN :
             df = IF caps
                  THEN [i \in DOMAIN inv |->
                           [inv[i] EXCEPT !.duplicate_status = capitalize(@)]]
                  ELSE inv
       \/ df \in DottedInventories \cup LocatedInventories
    /\ \E present \in SUBSET (1..Len(df)),
          stray \in (IF df \in Inventories THEN SUBSET StrayFiles ELSE {{}}) :
          /\ files = [p \in {<<normpath(dirname(df[i].path)), basename(df[i].path)>> :
                               i \in present} \cup stray |->
                        IF p \in stray THEN 0
                        ELSE CHOOSE i \in present :
                                <<normpath(dirname(df[i].path)), basename(df[i].path)>> = p]
          /\ dirs = UNION {Ancestors(normpath(dirname(df[i].path))) : i \in 1..Len(df)}
                        \cup UNION {Ancestors(dirname(p)) : p \in stray}
                        \cup {root_dir}
    /\ denied \in {{}} \cup (IF prod THEN {{p} : p \in DOMAIN files \ StrayFiles} ELSE {})
    /\ start_files = files
    /\ row_i = 1
    /\ moves = <<>>
    /\ errors = <<>>
    /\ status_counts = new_status_counts
    /\ move_i = 0
    /\ results = new_results
    /\ pass = 1
    /\ InventoryIdle /\ SubfoldersIdle /\ DedupIdle /\ CopyIdle

\* one iteration of the loop of plan_file_moves
PlanRow ==
    /\ tool = "reorganize_media" /\ pc = "plan"
    /\ row_i <= Len(df)
    /\ LET acc == plan_row(df[row_i],
                           [moves |-> moves, errors |-> errors,
                            status_counts |-> status_counts], files)
       IN  /\ moves' = acc.moves
           /\ errors' = acc.errors
           /\ status_counts' = acc.status_counts
    /\ row_i' = row_i + 1
    /\ UNCHANGED <<df, move_i, results, pass>>
    /\ UNCHANGED <<common_vars, disk_vars>>
    /\ UNCHANGED outside_planner

\* plan_file_moves returns (line 113) and main calls execute_moves (line 190)
PlanReturn ==
    /\ tool = "reorganize_media" /\ pc = "plan"
    /\ row_i > Len(df)
    /\ pc' = "execute"
    /\ move_i' = 1
    /\ results' = new_results
    /\ UNCHANGED <<tool, prod, disk_vars, df, row_i, moves, errors, status_counts, pass>>
    /\ UNCHANGED outside_planner

(***************************************************************************)
(* reorganize_media.py: execute_moves                                      *)
(***************************************************************************)
\* shutil.move(source, target) of a regular file onto a file path: os.rename
\* replaces an existing target; where it refuses (Windows), shutil.move falls
\* back to copy2 + unlink, which replaces it as well.  Undefined when the
\* source does not exist (FileNotFoundError).
shutil_move(disk, source, target) ==
    LET s == <<normpath(dirname(source)), basename(source)>>
        t == <<normpath(dirname(target)), basename(target)>>
    IN  [p \in (DOMAIN disk \ {s}) \cup {t} |-> IF p = t THEN disk[s] ELSE disk[p]]

\* execute_moves applying the move whatever dry_run says
media_execute_one_always(move, dry_run, res, disk, dd, den) ==
    LET source == move[1]
        target == move[2]
    IN  IF normpath(dirname(source)) = normpath(dirname(target))
        THEN [results |-> [res EXCEPT !.skipped = @ + 1], files |-> disk, dirs |-> dd]
        ELSE IF ~exists(source, disk) \/ refused(source, den)
        THEN [results |-> [res EXCEPT !.failed = @ + 1,
                                      !.errors = Append(@, <<"Error moving", source>>)],
              files |-> disk, dirs |-> dd \cup Ancestors(normpath(dirname(target)))]
        ELSE [results |-> [res EXCEPT !.successful = @ + 1],
              files |-> shutil_move(disk, source, target),
              dirs |-> dd \cup Ancestors(normpath(dirname(target)))]

\* one iteration of the loop of execute_moves (lines 126-150): the counters and
\* the disk after it
media_execute_one(move, dry_run, res, disk, dd, den) ==
    LET source == move[1]
        target == move[2]
        source_dir == dirname(source)
        target_dir == dirname(target)
    IN  IF normpath(source_dir) = normpath(target_dir)
        THEN [results |-> [res EXCEPT !.skipped = @ + 1], files |-> disk, dirs |-> dd]
        ELSE IF dry_run
        THEN [results |-> res, files |-> disk, dirs |-> dd]
        ELSE IF ~exists(source, disk) \/ refused(source, den)
        THEN \* os.makedirs succeeded, shutil.move raised: lines 146-150
             [results |-> [res EXCEPT !.failed = @ + 1,
                                      !.errors = Append(@, <<"Error moving", source>>)],
              files |-> disk, dirs |-> dd \cup Ancestors(normpath(target_dir))]
        ELSE [results |-> [res EXCEPT !.successful = @ + 1],
              files |-> shutil_move(disk, source, target),
              dirs |-> dd \cup Ancestors(normpath(target_dir))]

ExecuteMove ==
    /\ tool = "reorganize_media" /\ pc = "execute"
    /\ move_i <= Len(moves)
    /\ LET r == media_execute_one(moves[move_i], ~prod, results, files, dirs, denied)
       IN  /\ results' = r.results
           /\ files' = r.files
           /\ dirs' = r.dirs
    /\ move_i' = move_i + 1
    /\ UNCHANGED <<common_vars, df, row_i, moves, errors, status_counts, pass>>
    /\ UNCHANGED outside_planner

\* execute_moves returns (line 152); main prints the summary
ExecuteReturn ==
    /\ tool = "reorganize_media" /\ pc = "execute"
    /\ move_i > Len(moves)
    /\ pc' = "done"
    /\ UNCHANGED <<tool, prod, disk_vars, planner_vars>>
    /\ UNCHANGED outside_planner

\* the File Path of a row after the apply: where its file was moved to
path_after(row, mvs) ==
    IF \E k \in DOMAIN mvs : mvs[k][1] = row.path
    THEN (mvs[CHOOSE k \in DOMAIN mvs : mvs[k][1] = row.path])[2]
    ELSE row.path

\* after an apply run in which no move failed, the inventory is brought up to
\* date (each File Path is where the file now lies) and the planner is run again
PlanAgain ==
    /\ tool = "reorganize_media" /\ pc = "done"
    /\ prod /\ pass = 1 /\ results.failed = 0
    /\ df' = [i \in DOMAIN df |-> [df[i] EXCEPT !.path = path_after(df[i], moves)]]
    /\ pass' = 2
    /\ pc' = "plan"
    /\ row_i' = 1
    /\ moves' = <<>>
    /\ errors' = <<>>
    /\ status_counts' = new_status_counts
    /\ UNCHANGED <<tool, prod, disk_vars, move_i, results>>
    /\ UNCHANGED outside_planner

NextPlanner == PlanRow \/ PlanReturn \/ ExecuteMove \/ ExecuteReturn \/ PlanAgain

(***************************************************************************)
(* execute_moves called on a move list of its own                          *)
(***************************************************************************)
MaxMoves == 3           \* longest move list handed to execute_moves

\* the moves enumerated: a.jpg from in1, from in2 or from the target directory
\* itself, to a.jpg or a_dup.jpg in the target directory
ExecSources ==
    {join(<<"in1">>, Photo), join(<<"in2">>, Photo),
     join(root_dir \o <<"2024", "2024-05-01_Paris">>, Photo)}
ExecTargets ==
    {join(root_dir \o <<"2024", "2024-05-01_Paris">>, Photo),
     join(root_dir \o <<"2024", "2024-05-01_Paris">>, [base |-> "a_dup", ext |-> ".jpg"])}
ExecMoveLists == SeqsUpTo({<<s, t, "ok">> : s \in ExecSources, t \in ExecTargets}, MaxMoves)

\* lines 115-124: execute_moves is entered with a list of moves; one of the
\* source files at most is missing, one at most cannot be moved
InitExecute ==
    /\ tool = "reorganize_media"
    /\ prod \in BOOLEAN
    /\ pc = "execute"
    /\ moves \in ExecMoveLists
    /\ moves # <<>>
    /\ move_i = 1
    /\ results = new_results
    /\ \E missing \in {{}} \cup {{p} : p \in ExecSources} :
          /\ files = [p \in ExecSources \ missing |-> 0]
          /\ dirs = UNION {Ancestors(dirname(p)) : p \in ExecSources \ missing} \cup {root_dir}
    /\ denied \in {{}} \cup (IF prod THEN {{p} : p \in DOMAIN files} ELSE {})
    /\ start_files = files
    /\ df = <<>> /\ row_i = 0 /\ errors = <<>> /\ status_counts = new_status_counts
    /\ pass = 0
    /\ InventoryIdle /\ SubfoldersIdle /\ DedupIdle /\ CopyIdle

NextExecute == ExecuteMove \/ ExecuteReturn

(***************************************************************************)
(* reorganize_subfolders.py: the subfolder merger                          *)
(***************************************************************************)
MaxDirs == 4            \* most directories in an enumerated tree
MaxRefusedDirs == 2     \* most directories in a tree with a file that cannot be moved

source_dir == <<"media">>

\* calendar dates as day numbers counted from 2024-05-01
Dates == {0, 9, 18, 31, 40}
DateStr(d) ==
    CASE d = 0 -> "2024-05-01"
      [] d = 9 -> "2024-05-10"
      [] d = 18 -> "2024-05-19"
      [] d = 31 -> "2024-06-01"
      [] d = 40 -> "2024-06-10"

Locations == {"Royan", "Niort", "Lyon", "Paris"}

\* line 47, the entries that name a location of the model, in the list's order
preferred_locations == <<"Royan", "Niort">>

DirName(d, loc) == DateStr(d) \o "_" \o loc

\* parse_directory_name: split at the first '_', strptime the first part
parse_directory_name(directory_name) ==
    IF \E d \in Dates, l \in Locations : DirName(d, l) = directory_name
    THEN LET dl == CHOOSE dl \in Dates \X Locations : DirName(dl[1], dl[2]) = directory_name
         IN  [ok |-> TRUE, date |-> dl[1], location |-> dl[2]]
    ELSE [ok |-> FALSE, date |-> 0, location |-> ""]

\* `loc in os.path.basename(folder)` on the names of the model
loc_in_basename(loc, folder) ==
    LET p == parse_directory_name(folder[Len(folder)])
    IN  p.ok /\ p.location = loc

\* `'_' in os.path.basename(folder)` on the names of the model
has_underscore(folder) == parse_directory_name(folder[Len(folder)]).ok

\* the files os.walk lists in `folder`, in name order
FileNameOrder == <<[base |-> "a", ext |-> ".jpg"], [base |-> "b", ext |-> ".jpg"]>>
walk_files(folder, disk) ==
    SelectSeq(FileNameOrder, LAMBDA n : <<folder, n>> \in DOMAIN disk)

\* find_subfolders_to_merge (lines 32-43) over the directories in the order
\* os.walk discovers them: the dict as a sequence of [date, folders] in
\* insertion order
RECURSIVE find_subfolders_to_merge(_, _, _)
find_subfolders_to_merge(order, i, acc) ==
    IF i > Len(order) THEN acc
    ELSE LET p == parse_directory_name(order[i][Len(order[i])])
         IN  IF ~p.ok THEN find_subfolders_to_merge(order, i + 1, acc)
             ELSE IF \E k \in DOMAIN acc : acc[k].date = p.date
             THEN LET k == CHOOSE k \in DOMAIN acc : acc[k].date = p.date
                  IN  find_subfolders_to_merge(order, i + 1,
                          [acc EXCEPT ![k].folders = Append(@, order[i])])
             ELSE find_subfolders_to_merge(order, i + 1,
                      Append(acc, [date |-> p.date, folders |-> <<order[i]>>]))

\* next(folder for folder in folders if P(folder)), or <<>> when there is none
first_folder(folders, P(_)) ==
    LET hits == SelectSeq(folders, P)
    IN  IF hits = <<>> THEN <<>> ELSE hits[1]

\* lines 53-57: the first preferred location, in list order, that a folder matches
RECURSIVE preferred_target(_, _)
preferred_target(folders, k) ==
    IF k > Len(preferred_locations) THEN <<>>
    ELSE LET hit == first_folder(folders,
                        LAMBDA f : loc_in_basename(preferred_locations[k], f))
         IN  IF hit # <<>> THEN hit ELSE preferred_target(folders, k + 1)

\* the target is the first folder discovered, whatever the preferred list says
select_target_first_found(folders) == folders[1]

\* lines 53-60: the target folder of a date
select_target(folders) ==
    LET pref == preferred_target(folders, 1)
    IN  IF pref # <<>> THEN pref
        ELSE LET any == first_folder(folders, has_underscore)
             IN  IF any # <<>> THEN any ELSE folders[1]

\* lines 63-67: the moves of every file of `folder` into target_folder
folder_moves(folder, target_folder, disk) ==
    LET names == walk_files(folder, disk)
    IN  [k \in DOMAIN names |->
            <<join(folder, names[k]), join(target_folder, names[k]), target_folder>>]

\* lines 61-69 for one date: the moves and the folders queued for removal
RECURSIVE date_moves(_, _, _, _)
date_moves(folders, j, target_folder, disk) ==
    IF j > Len(folders) THEN [moves |-> <<>>, empty_dirs |-> {}]
    ELSE LET rest == date_moves(folders, j + 1, target_folder, disk)
         IN  IF folders[j] # target_folder
             THEN [moves |-> folder_moves(folders[j], target_folder, disk) \o rest.moves,
                   empty_dirs |-> {folders[j]} \cup rest.empty_dirs]
             ELSE rest

\* plan_moves (lines 45-72)
RECURSIVE plan_moves(_, _, _)
plan_moves(subfolders, i, disk) ==
    IF i > Len(subfolders) THEN [moves |-> <<>>, empty_dirs |-> {}]
    ELSE LET rest == plan_moves(subfolders, i + 1, disk)
             folders == subfolders[i].folders
         IN  IF Len(folders) > 1
             THEN LET here == date_moves(folders, 1, select_target(folders), disk)
                  IN  [moves |-> here.moves \o rest.moves,
                       empty_dirs |-> here.empty_dirs \cup rest.empty_dirs]
             ELSE rest

\* lines 76-81: location -> [(date, target_dir)], one entry per move, the
\* locations in the order of their first move
RECURSIVE location_groups(_, _, _)
location_groups(mvs, i, acc) ==
    IF i > Len(mvs) THEN acc
    ELSE LET target_dir == dirname(mvs[i][2])
             p == parse_directory_name(target_dir[Len(target_dir)])
             entry == <<p.date, target_dir>>
         IN  IF ~p.ok THEN location_groups(mvs, i + 1, acc)
             ELSE IF \E k \in DOMAIN acc : acc[k].location = p.location
             THEN LET k == CHOOSE k \in DOMAIN acc : acc[k].location = p.location
                  IN  location_groups(mvs, i + 1, [acc EXCEPT ![k].dirs = Append(@, entry)])
             ELSE location_groups(mvs, i + 1,
                      Append(acc, [location |-> p.location, dirs |-> <<entry>>]))

\* dirs.sort() (line 86): by date; entries of one date and one location name
\* the same directory
RECURSIVE sort_dirs(_)
sort_dirs(ds) ==
    IF ds = <<>> THEN <<>>
    ELSE LET m == CHOOSE k \in DOMAIN ds : \A j \in DOMAIN ds : ds[k][1] <= ds[j][1]
         IN  <<ds[m]>> \o sort_dirs(SubSeq(ds, 1, m - 1) \o SubSeq(ds, m + 1, Len(ds)))

window_days == 14

\* lines 92-97 without the test of line 96
window_moves_unfiltered(current_folder, target_folder, disk) ==
    folder_moves(current_folder, target_folder, disk)

\* lines 92-97: the moves of the files of current_folder that are not in place
window_moves(current_folder, target_folder, disk) ==
    SelectSeq(folder_moves(current_folder, target_folder, disk),
              LAMBDA mv : <<normpath(dirname(mv[1])), basename(mv[1])>> #
                          <<normpath(dirname(mv[2])), basename(mv[2])>>)

\* lines 88-101 merging a directory into the one just before it, no anchor
\* carried forward
RECURSIVE walk_location_no_carry(_, _, _, _)
walk_location_no_carry(ds, i, target_folder, disk) ==
    IF i > Len(ds) THEN [moves |-> <<>>, empty_dirs |-> {}]
    ELSE LET rest == walk_location_no_carry(ds, i + 1, target_folder, disk)
         IN  IF ds[i][1] - ds[i - 1][1] <= window_days
             THEN [moves |-> window_moves(ds[i][2], ds[i - 1][2], disk) \o rest.moves,
                   empty_dirs |-> {ds[i][2]} \cup rest.empty_dirs]
             ELSE rest

\* lines 88-101 from index i of one location's sorted list
RECURSIVE walk_location(_, _, _, _)
walk_location(ds, i, target_folder, disk) ==
    IF i > Len(ds) THEN [moves |-> <<>>, empty_dirs |-> {}]
    ELSE LET current_date == ds[i][1]
             current_folder == ds[i][2]
             previous_date == ds[i - 1][1]
         IN  IF current_date - previous_date <= window_days
             THEN LET rest == walk_location(ds, i + 1, target_folder, disk)
                  IN  [moves |-> window_moves(current_folder, target_folder, disk)
                                     \o rest.moves,
                       empty_dirs |-> {current_folder} \cup rest.empty_dirs]
             ELSE walk_location(ds, i + 1, current_folder, disk)

\* reorganize_by_location (lines 74-102): the additional moves and the folders
\* it adds to empty_dirs
RECURSIVE reorganize_groups(_, _, _)
reorganize_groups(groups, g, disk) ==
    IF g > Len(groups) THEN [moves |-> <<>>, empty_dirs |-> {}]
    ELSE LET ds == sort_dirs(groups[g].dirs)
             here == walk_location(ds, 2, ds[1][2], disk)
             rest == reorganize_groups(groups, g + 1, disk)
         IN  [moves |-> here.moves \o rest.moves,
              empty_dirs |-> here.empty_dirs \cup rest.empty_dirs]

reorganize_by_location(mvs, disk) ==
    reorganize_groups(location_groups(mvs, 1, <<>>), 1, disk)

\* execute_moves applying the move whatever --prod says
sub_execute_one_always(move, is_prod, disk, dd, den) ==
    IF exists(move[1], disk) /\ ~refused(move[1], den)
    THEN [files |-> shutil_move(disk, move[1], move[2]),
          dirs |-> dd \cup Ancestors(normpath(move[3])),
          printed |-> "Moved", raised |-> FALSE]
    ELSE [files |-> disk, dirs |-> dd, printed |-> "Would move", raised |-> FALSE]

\* one iteration of the loop of execute_moves (lines 107-117): the disk after
\* it, the line it printed, and whether shutil.move raised; nothing in
\* execute_moves or in main catches what it raises
sub_execute_one(move, is_prod, disk, dd, den) ==
    LET source == move[1]
        target == move[2]
        target_folder == move[3]
    IN  IF ~is_prod
        THEN [files |-> disk, dirs |-> dd, printed |-> "Would move", raised |-> FALSE]
        ELSE IF exists(source, disk)
        THEN IF refused(source, den)
             THEN [files |-> disk, dirs |-> dd \cup Ancestors(normpath(target_folder)),
                   printed |-> "", raised |-> TRUE]
             ELSE [files |-> shutil_move(disk, source, target),
                   dirs |-> dd \cup Ancestors(normpath(target_folder)),
                   printed |-> "Moved", raised |-> FALSE]
        ELSE [files |-> disk, dirs |-> dd,
              printed |-> "Error: Source file not found", raised |-> FALSE]

\* shutil.rmtree(dir): the directory goes with every file in it; OSError,
\* caught at line 166, when the directory does not exist
rmtree(dir, disk, dd) ==
    IF dir \in dd
    THEN [files |-> [p \in {q \in DOMAIN disk : dirname(q) # dir} |-> disk[p]],
          dirs |-> dd \ {dir}]
    ELSE [files |-> disk, dirs |-> dd]

\* the trees enumerated: up to MaxDirs directories <date>_<location> below
\* source_dir, each holding a.jpg, and one of them at most b.jpg as well
TreeDirNames ==
    {DirName(d, l) : d \in {0, 9, 31}, l \in {"Royan", "Lyon"}}
ParisDirNames == {DirName(d, "Paris") : d \in {0, 9, 31}}
\* the trees of three dates with Royan and Lyon on each: a chain of 9-day gaps,
\* and a 31-day gap followed by a 9-day gap
ChainDirSets ==
    {{DirName(d, l) : d \in ds, l \in {"Royan", "Lyon"}} : ds \in {{0, 9, 18}, {0, 31, 40}}}
\* the orders in which these are discovered: date by date, the dates in or out
\* of calendar order, either location first
ChainWalks ==
    {[i \in 1..6 |-> DirName(ds[(i + 1) \div 2], ls[2 - (i % 2)])] :
        ds \in {<<0, 9, 18>>, <<18, 9, 0>>, <<0, 31, 40>>, <<40, 0, 31>>},
        ls \in {<<"Royan", "Lyon">>, <<"Lyon", "Royan">>}}
\* and the trees of one date with up to four locations, two of them preferred
OneDateDirNames == {DirName(0, l) : l \in Locations}

DirSets ==
    {D \in SUBSET TreeDirNames : Cardinality(D) \in 1..MaxDirs}
        \cup (SUBSET ParisDirNames \ {{}})
        \cup (SUBSET OneDateDirNames \ {{}})
        \cup ChainDirSets

Permutations_of(S) ==
    {s \in [1..Cardinality(S) -> S] : \A i, j \in 1..Cardinality(S) : s[i] = s[j] => i = j}

DirContents == {{FileNameOrder[1]}, {FileNameOrder[1], FileNameOrder[2]}}

\* the files of a tree: a.jpg in every directory, b.jpg in one of them at most
TreeContents(D) ==
    {c \in [D -> DirContents] :
        Cardinality({k \in D : c[k] # {FileNameOrder[1]}}) <= 1}

\* main, lines 125-139
InitSubfolders ==
    /\ tool = "reorganize_subfolders"
    /\ prod \in BOOLEAN
    /\ pc = "plan"
    /\ \E D \in DirSets :
          /\ dirs = {source_dir} \cup {source_dir \o <<n>> : n \in D}
          /\ \E content \in (IF D \in ChainDirSets THEN [D -> {{FileNameOrder[1]}}]
                               ELSE TreeContents(D)) :
                files = [p \in UNION {{<<source_dir \o <<n>>, f>> : f \in content[n]} : n \in D}
                            |-> p]
          /\ \E order \in (IF D \in ChainDirSets THEN {w \in ChainWalks : Range(w) = D}
                             ELSE Permutations_of(D)) :
                walk_order = [i \in DOMAIN order |-> source_dir \o <<order[i]>>]
    /\ denied \in {{}} \cup (IF prod /\ Len(walk_order) <= MaxRefusedDirs
                             THEN {{p} : p \in DOMAIN files} ELSE {})
    /\ start_files = files
    /\ moves = <<>>
    /\ move_i = 0
    /\ empty_dirs = {}
    /\ additional_moves = <<>>
    /\ removal_seen = {}
    /\ outcomes = <<>>
    /\ InventoryIdle /\ PlanIdle /\ DedupIdle /\ CopyIdle

\* lines 139-145: find_subfolders_to_merge, plan_moves, and the early return
SubPlan ==
    /\ tool = "reorganize_subfolders" /\ pc = "plan"
    /\ LET r == plan_moves(find_subfolders_to_merge(walk_order, 1, <<>>), 1, files)
       IN  /\ moves' = r.moves
           /\ empty_dirs' = r.empty_dirs
           /\ pc' = IF r.moves = <<>> THEN "done" ELSE "execute"
    /\ move_i' = 1
    /\ UNCHANGED <<tool, prod, disk_vars, walk_order, additional_moves, removal_seen, outcomes>>
    /\ UNCHANGED outside_subfolders

\* line 148: one iteration of execute_moves(moves); an exception of shutil.move
\* leaves main with a traceback
SubExecuteMove ==
    /\ tool = "reorganize_subfolders" /\ pc = "execute"
    /\ move_i <= Len(moves)
    /\ LET r == sub_execute_one(moves[move_i], prod, files, dirs, denied)
       IN  /\ files' = r.files /\ dirs' = r.dirs
           /\ pc' = IF r.raised THEN "crashed" ELSE pc
           /\ move_i' = IF r.raised THEN move_i ELSE move_i + 1
           /\ outcomes' = IF r.raised THEN outcomes
                          ELSE Append(outcomes, <<moves[move_i][1], r.printed>>)
    /\ UNCHANGED <<tool, prod, moves, walk_order, empty_dirs, additional_moves, removal_seen>>
    /\ UNCHANGED outside_subfolders

\* lines 151-152: reorganize_by_location on the disk as the first moves left it
SubReorganize ==
    /\ tool = "reorganize_subfolders" /\ pc = "execute"
    /\ move_i > Len(moves)
    /\ LET r == reorganize_by_location(moves, files)
       IN  /\ additional_moves' = r.moves
           /\ empty_dirs' = empty_dirs \cup r.empty_dirs
           /\ pc' = IF r.moves = <<>> THEN "remove" ELSE "execute_additional"
    /\ move_i' = 1
    /\ UNCHANGED <<tool, prod, disk_vars, moves, walk_order, removal_seen, outcomes>>
    /\ UNCHANGED outside_subfolders

\* line 153: one iteration of execute_moves(additional_moves)
SubExecuteAdditional ==
    /\ tool = "reorganize_subfolders" /\ pc = "execute_additional"
    /\ move_i <= Len(additional_moves)
    /\ LET r == sub_execute_one(additional_moves[move_i], prod, files, dirs, denied)
       IN  /\ files' = r.files /\ dirs' = r.dirs
           /\ pc' = IF r.raised THEN "crashed" ELSE pc
           /\ move_i' = IF r.raised THEN move_i ELSE move_i + 1
           /\ outcomes' = IF r.raised THEN outcomes
                          ELSE Append(outcomes, <<additional_moves[move_i][1], r.printed>>)
    /\ UNCHANGED <<tool, prod, moves, walk_order, empty_dirs, additional_moves, removal_seen>>
    /\ UNCHANGED outside_subfolders

\* lines 154-156: moves.extend(additional_moves), save_moves_to_excel
SubExtend ==
    /\ tool = "reorganize_subfolders" /\ pc = "execute_additional"
    /\ move_i > Len(additional_moves)
    /\ moves' = moves \o additional_moves
    /\ pc' = "remove"
    /\ UNCHANGED <<tool, prod, disk_vars, move_i, walk_order, empty_dirs, additional_moves,
                   removal_seen, outcomes>>
    /\ UNCHANGED outside_subfolders

\* lines 160-167: one iteration of the loop over empty_dirs (a set: any order)
SubRemoveDir ==
    /\ tool = "reorganize_subfolders" /\ pc = "remove"
    /\ \E dir \in empty_dirs \ removal_seen :
          /\ removal_seen' = removal_seen \cup {dir}
          /\ LET r == IF prod THEN rmtree(dir, files, dirs)
                      ELSE [files |-> files, dirs |-> dirs]
             IN  files' = r.files /\ dirs' = r.dirs
    /\ UNCHANGED <<common_vars, moves, move_i, walk_order, empty_dirs, additional_moves, outcomes>>
    /\ UNCHANGED outside_subfolders

\* line 169: the run is over
SubDone ==
    /\ tool = "reorganize_subfolders" /\ pc = "remove"
    /\ empty_dirs \subseteq removal_seen
    /\ pc' = "done"
    /\ UNCHANGED <<tool, prod, disk_vars, moves, move_i, subfolders_vars>>
    /\ UNCHANGED outside_subfolders

NextSubfolders ==
    \/ SubPlan \/ SubExecuteMove \/ SubReorganize \/ SubExecuteAdditional
    \/ SubExtend \/ SubRemoveDir \/ SubDone

(***************************************************************************)
(* remove_duplicates.py: fingerprint grouping                              *)
(*                                                                         *)
(* The content of a file is [size, ones, readable]: `ones` is the set of   *)
(* byte offsets that hold a 1, every other byte of the file is 0.          *)
(***************************************************************************)
MaxFiles == 3           \* most files in an enumerated scan

chunk_size == 4096

\* the bytes f.read(n) returns at offset `from` of a file: their number and the
\* offsets, counted from `from`, of the 1 bytes among them
read_bytes(content, from, n) ==
    LET upto == IF from + n < content.size THEN from + n ELSE content.size
    IN  [len |-> upto - from,
         ones |-> {p - from : p \in {q \in content.ones : q >= from /\ q < upto}}]

\* calculate_quick_hash (lines 34-50).  MD5 is taken to be collision-free: the
\* digest is the byte string fed to it, the first chunk followed by the last.
calculate_quick_hash(content) ==
    [first |-> read_bytes(content, 0, chunk_size),
     last |-> IF content.size > chunk_size * 2
              THEN read_bytes(content, content.size - chunk_size, chunk_size)
              ELSE [len |-> 0, ones |-> {}]]

\* a defaultdict(list) filled in the order of `items`: the sequence of
\* [key, members] in insertion order; keys[i] is the key of items[i]
RECURSIVE group_by(_, _, _, _)
group_by(items, keys, i, acc) ==
    IF i > Len(items) THEN acc
    ELSE IF \E k \in DOMAIN acc : acc[k].key = keys[i]
    THEN LET k == CHOOSE k \in DOMAIN acc : acc[k].key = keys[i]
         IN  group_by(items, keys, i + 1, [acc EXCEPT ![k].members = Append(@, items[i])])
    ELSE group_by(items, keys, i + 1, Append(acc, [key |-> keys[i], members |-> <<items[i]>>]))

\* lines 77-91 for the size groups from index g on: the hash groups of two
\* files or more
RECURSIVE hash_pass(_, _, _)
hash_pass(size_groups, g, disk) ==
    IF g > Len(size_groups) THEN <<>>
    ELSE LET file_paths == size_groups[g].members
             hashed == SelectSeq(file_paths, LAMBDA p : disk[p].readable)
             hash_groups == group_by(hashed,
                                [k \in DOMAIN hashed |-> calculate_quick_hash(disk[hashed[k]])],
                                1, <<>>)
             dups == SelectSeq(hash_groups, LAMBDA h : Len(h.members) > 1)
         IN  [k \in DOMAIN dups |-> dups[k].members] \o hash_pass(size_groups, g + 1, disk)

\* find_duplicates without the first pass: every file hashed, one size group
find_duplicates_hash_only(scan, disk) ==
    hash_pass(<<[key |-> 0, members |-> scan]>>, 1, disk)

\* find_duplicates (lines 52-93) over the files in the order os.walk lists them
find_duplicates(scan, disk) ==
    LET size_groups == group_by(scan, [k \in DOMAIN scan |-> disk[scan[k]].size], 1, <<>>)
        groups_to_check == SelectSeq(size_groups, LAMBDA s : Len(s.members) > 1)
    IN  hash_pass(groups_to_check, 1, disk)

\* os.path.basename(f).count('_') on the names of the model
count_underscores(filename) ==
    CASE filename.base = "img_1" -> 1
      [] filename.base = "img_1_2" -> 2
      [] OTHER -> 0

\* choose_file_to_remove (lines 95-107): the files it may return; random.choice
\* may return any member
choose_file_to_remove(file_group) ==
    LET files_with_underscore ==
            SelectSeq(file_group, LAMBDA f : count_underscores(basename(f)) > 0)
        most == CHOOSE k \in DOMAIN files_with_underscore :
                    /\ \A j \in DOMAIN files_with_underscore :
                          count_underscores(basename(files_with_underscore[j]))
                              <= count_underscores(basename(files_with_underscore[k]))
                    /\ \A j \in 1..(k - 1) :
                          count_underscores(basename(files_with_underscore[j]))
                              < count_underscores(basename(files_with_underscore[k]))
    IN  IF files_with_underscore # <<>>
        THEN {files_with_underscore[most]}
        ELSE Range(file_group)

\* the i-th file of a scan lies in its own directory and is named by its place
ScanName(i) ==
    [base |-> CASE i = 1 -> "img" [] i = 2 -> "pic" [] i = 3 -> "img_1" [] OTHER -> "img_1_2",
     ext |-> ".jpg"]
ScanPath(i) == <<<<"photos", "d" \o ToString(i)>>, ScanName(i)>>

\* lines 59-62: the files listed by os.walk over the directories given, in
\* order: photos alone, or photos followed by photos/d1, a directory inside
\* it, whose file is then listed a second time (enumerated over files that can
\* all be read)
walk_roots(n, overlap) ==
    [i \in 1..n |-> ScanPath(i)] \o (IF overlap THEN <<ScanPath(1)>> ELSE <<>>)

\* the contents enumerated: sizes N, 2N and 2N+1, a 1 byte at offset 0, N or 2N
Contents ==
    {[size |-> s, ones |-> o, readable |-> r] :
        s \in {chunk_size, 2 * chunk_size, 2 * chunk_size + 1},
        o \in {{}, {0}, {chunk_size}, {2 * chunk_size}},
        r \in BOOLEAN}

DedupContents == {c \in Contents : \A p \in c.ones : p < c.size}

\* main, lines 109-138
InitDedup ==
    /\ tool = "remove_duplicates"
    /\ prod \in BOOLEAN
    /\ pc = "find"
    /\ \E n \in 1..MaxFiles, overlap \in BOOLEAN :
          /\ scan_order = walk_roots(n, overlap)
          /\ \E content \in (IF overlap THEN [1..n -> {c \in DedupContents : c.readable}]
                               ELSE [1..n -> DedupContents]) :
                files = [p \in {ScanPath(i) : i \in 1..n} |->
                            content[CHOOSE i \in 1..n : ScanPath(i) = p]]
          /\ dirs = UNION {Ancestors(dirname(ScanPath(i))) : i \in 1..n}
    /\ denied = {}
    /\ start_files = files
    /\ duplicate_groups = <<>>
    /\ group_i = 0
    /\ removed = <<>>
    /\ InventoryIdle /\ PlanIdle /\ MovesIdle /\ SubfoldersIdle /\ CopyIdle

\* lines 141-145: find_duplicates and the early return
DedupFind ==
    /\ tool = "remove_duplicates" /\ pc = "find"
    /\ duplicate_groups' = find_duplicates(scan_order, files)
    /\ pc' = IF duplicate_groups' = <<>> THEN "done" ELSE "process"
    /\ group_i' = 1
    /\ UNCHANGED <<tool, prod, disk_vars, scan_order, removed>>
    /\ UNCHANGED outside_dedup

\* os.remove(file_to_remove) whatever --prod says
remove_chosen_always(file_to_remove, is_prod, disk) ==
    [p \in DOMAIN disk \ {file_to_remove} |-> disk[p]]

\* lines 161-166: the disk after the group's file_to_remove was handled
remove_chosen(file_to_remove, is_prod, disk) ==
    IF is_prod /\ file_to_remove \in DOMAIN disk
    THEN [p \in DOMAIN disk \ {file_to_remove} |-> disk[p]]
    ELSE disk

\* lines 151-166: one iteration of the loop over duplicate_groups
DedupProcessGroup ==
    /\ tool = "remove_duplicates" /\ pc = "process"
    /\ group_i <= Len(duplicate_groups)
    /\ \E file_to_remove \in choose_file_to_remove(duplicate_groups[group_i]) :
          /\ removed' = Append(removed, file_to_remove)
          /\ files' = remove_chosen(file_to_remove, prod, files)
    /\ group_i' = group_i + 1
    /\ UNCHANGED <<common_vars, dirs, scan_order, duplicate_groups>>
    /\ UNCHANGED outside_dedup

\* lines 168-173: the summary
DedupDone ==
    /\ tool = "remove_duplicates" /\ pc = "process"
    /\ group_i > Len(duplicate_groups)
    /\ pc' = "done"
    /\ UNCHANGED <<tool, prod, disk_vars, dedup_vars>>
    /\ UNCHANGED outside_dedup

NextDedup == DedupFind \/ DedupProcessGroup \/ DedupDone

(***************************************************************************)
(* copy_files_from_excel.py                                                *)
(***************************************************************************)
MaxCopyRows == 2        \* longest Source/Destination sheet enumerated

CopyPaths ==
    {<<<<"in1">>, Photo>>, <<<<"in2">>, Photo>>,
     <<root_dir \o <<"2024", "2024-05-01_Paris">>, Photo>>}

\* shutil.copy2(source, destination): the destination gets the content, an
\* existing one is replaced; SameFileError, caught at line 44, when both are
\* the same file
shutil_copy2(disk, source, destination) ==
    IF source = destination THEN disk
    ELSE [p \in DOMAIN disk \cup {destination} |->
             IF p = destination THEN disk[source] ELSE disk[p]]

\* the copy is made whatever prod says
copy_one_always(row, is_prod, disk, dd) ==
    IF ~exists(row[1], disk) THEN [files |-> disk, dirs |-> dd]
    ELSE [files |-> shutil_copy2(disk, row[1], row[2]),
          dirs |-> dd \cup Ancestors(dirname(row[2]))]

\* one iteration of the loop of copy_files_from_excel (lines 27-45)
copy_one(row, is_prod, disk, dd) ==
    LET source == row[1]
        destination == row[2]
        destination_dir == dirname(destination)
    IN  IF ~exists(source, disk) THEN [files |-> disk, dirs |-> dd]
        ELSE IF ~is_prod THEN [files |-> disk, dirs |-> dd]
        ELSE [files |-> shutil_copy2(disk, source, destination),
              dirs |-> dd \cup Ancestors(destination_dir)]

\* main and lines 13-25: the sheet is loaded
InitCopy ==
    /\ tool = "copy_files_from_excel"
    /\ prod \in BOOLEAN
    /\ pc = "copy"
    /\ copy_rows \in SeqsUpTo(CopyPaths \X CopyPaths, MaxCopyRows) \ {<<>>}
    /\ \E present \in SUBSET CopyPaths :
          /\ files = [p \in present |-> p]
          /\ dirs = UNION {Ancestors(dirname(p)) : p \in present}
    /\ denied = {}
    /\ start_files = files
    /\ copy_i = 1
    /\ InventoryIdle /\ PlanIdle /\ MovesIdle /\ SubfoldersIdle /\ DedupIdle

CopyRow ==
    /\ tool = "copy_files_from_excel" /\ pc = "copy"
    /\ copy_i <= Len(copy_rows)
    /\ LET r == copy_one(copy_rows[copy_i], prod, files, dirs)
       IN  files' = r.files /\ dirs' = r.dirs
    /\ copy_i' = copy_i + 1
    /\ UNCHANGED <<common_vars, copy_rows>>
    /\ UNCHANGED outside_copy

\* line 47: "Process completed."
CopyDone ==
    /\ tool = "copy_files_from_excel" /\ pc = "copy"
    /\ copy_i > Len(copy_rows)
    /\ pc' = "done"
    /\ UNCHANGED <<tool, prod, disk_vars, copy_vars>>
    /\ UNCHANGED outside_copy

NextCopy == CopyRow \/ CopyDone

(***************************************************************************)
(* Specifications: one per program, and Spec, a run of any of them         *)
(***************************************************************************)
SpecInventory == InitInventory /\ [][NextInventory]_vars
SpecResume == InitResume /\ [][NextResume]_vars
SpecPlanner == InitPlanner /\ [][NextPlanner]_vars
SpecSubfolders == InitSubfolders /\ [][NextSubfolders]_vars
SpecDedup == InitDedup /\ [][NextDedup]_vars
SpecCopy == InitCopy /\ [][NextCopy]_vars
SpecExecute == InitExecute /\ [][NextExecute]_vars

Init == InitInventory \/ InitResume \/ InitPlanner \/ InitSubfolders \/ InitDedup \/ InitCopy
Next ==
    \/ NextInventory \/ NextResume \/ NextPlanner \/ NextSubfolders \/ NextDedup
    \/ NextCopy
Spec == Init /\ [][Next]_vars

(***************************************************************************)
(* Claims on the registry                                                  *)
(***************************************************************************)
StatusSeq(ms) == [i \in DOMAIN ms |-> ms[i].status]

\* the status the i-th record of the scan order is due, from the records before it
ExpectedStatus(i) ==
    LET rec == files_to_process[i]
        earlier == {j \in 1..(i - 1) : files_to_process[j].file_name = rec.file_name}
    IN  IF earlier = {} THEN "ok"
        ELSE IF \E j \in earlier : files_to_process[j].size = rec.size THEN "duplicate"
        ELSE "error"

ExampleC1 == <<[file_name |-> "a.jpg", size |-> 100],
               [file_name |-> "a.jpg", size |-> 100],
               [file_name |-> "a.jpg", size |-> 200]>>

\* C1: with a registry that starts empty, the first record of a name gets 'ok',
\* a later record of that name with a size already recorded for it 'duplicate',
\* a later record of that name with a new size 'error'; a.jpg of sizes
\* 100, 100, 200 in that order gets ok, duplicate, error.
C1_StatusByHistory ==
    tool = "media_inventory" =>
        /\ \A i \in DOMAIN media_files : media_files[i].status = ExpectedStatus(i)
        /\ (files_to_process = ExampleC1 /\ Len(media_files) = 3)
               => StatusSeq(media_files) = <<"ok", "duplicate", "error">>

C1_Witness ==
    /\ tool = "media_inventory" /\ run = 1
    /\ files_to_process = ExampleC1
    /\ StatusSeq(media_files) = <<"ok", "duplicate", "error">>

C2_UniqueDestinations ==
    tool = "reorganize_media" =>
        \A i, j \in DOMAIN moves : i # j => moves[i][2] # moves[j][2]

\* C3: applying a move never replaces a file that already lies at the
\* destination path (both executors).
C3_NeverOverwrites ==
    [][(tool \in {"reorganize_media", "reorganize_subfolders"})
          => \A p \in DOMAIN files : p \in DOMAIN files' => files'[p] = files[p]]_vars

\* the rows of the inventory that are not marked duplicate
NonDuplicateRows == {i \in DOMAIN df : lower(df[i].duplicate_status) # "duplicate"}

Royan0 == source_dir \o <<DirName(0, "Royan")>>
Lyon0 == source_dir \o <<DirName(0, "Lyon")>>
Paris0 == source_dir \o <<DirName(0, "Paris")>>
Paris9 == source_dir \o <<DirName(9, "Paris")>>
Paris31 == source_dir \o <<DirName(31, "Paris")>>

\* C4: in apply mode a directory queued for removal is deleted only if it holds
\* no file; one that still holds files is left in place.
C4_RemovesOnlyEmptyDirs ==
    [][tool = "reorganize_subfolders"
          => \A d \in dirs \ dirs' : \A p \in DOMAIN files : dirname(p) # d]_vars

C8_WindowExample ==
    (tool = "reorganize_subfolders" /\ Range(walk_order) = {Paris0, Paris9, Paris31}
        /\ pc = "done")
        => /\ \A p \in DOMAIN files :
                 dirname(files[p]) = Paris9 =>
                     \E k \in DOMAIN moves :
                         moves[k][1] = files[p] /\ moves[k][2] = join(Paris0, basename(files[p]))
           /\ \A k \in DOMAIN moves :
                 dirname(moves[k][1]) # Paris31 /\ dirname(moves[k][2]) # Paris31

(***************************************************************************)
(* Claims on remove_duplicates                                             *)
(***************************************************************************)
FirstN(content) == read_bytes(content, 0, chunk_size)
LastN(content) ==
    read_bytes(content,
               IF content.size > chunk_size THEN content.size - chunk_size ELSE 0,
               chunk_size)

SameGroup(p, q) ==
    \E g \in DOMAIN duplicate_groups :
        {p, q} \subseteq Range(duplicate_groups[g])

\* find_duplicates has returned and no file has been removed yet
Grouped == tool = "remove_duplicates" /\ pc # "find" /\ removed = <<>>

C11_FailureNeverAborts ==
    (tool \in {"reorganize_media", "reorganize_subfolders"} /\ prod)
        => /\ pc # "crashed"
           /\ (tool = "reorganize_media" /\ pc = "done")
                 => results.successful + results.failed + results.skipped = Len(moves)

\* C12: every planned move of a record with status error is named
\* <base>_dup<ext>, or <base>_dup_<n><ext> after a collision, <base><ext> being
\* the source's name; no planned move of a record with status ok gets _dup: it
\* keeps its name, or gets _<n> after a collision.
C12_DupSuffixOnErrorOnly ==
    tool = "reorganize_media" =>
        \A k \in DOMAIN moves :
            LET src == basename(moves[k][1])
                dst == basename(moves[k][2])
                counters == 1..(Cardinality(DOMAIN files) + 1)
            IN  /\ dst.ext = src.ext
                /\ moves[k][3] = "error" =>
                      dst.base \in {src.base \o "_dup"}
                          \cup {src.base \o "_dup_" \o ToString(n) : n \in counters}
                /\ moves[k][3] = "ok" =>
                      dst.base \in {src.base}
                          \cup {src.base \o "_" \o ToString(n) : n \in counters}

C12_Witness ==
    /\ tool = "reorganize_media" /\ pc = "execute"
    /\ \E k \in DOMAIN moves :
          moves[k][3] = "error" /\ basename(moves[k][2]).base = "a_dup_1"
    /\ \E k \in DOMAIN moves :
          moves[k][3] = "ok" /\ basename(moves[k][2]).base = "a_1"

\* C13: no row whose Duplicate Status reads duplicate, in any letter case, is
\* the source of a planned move.
C13_DuplicatesNeverPlanned ==
    tool = "reorganize_media" =>
        \A i \in DOMAIN df :
            lower(df[i].duplicate_status) = "duplicate"
                => \A k \in DOMAIN moves : moves[k][1] # df[i].path

C13_Witness ==
    /\ tool = "reorganize_media" /\ pc = "execute" /\ pass = 1
    /\ moves # <<>>
    /\ \E i \in DOMAIN df :
          /\ df[i].duplicate_status = "Duplicate"
          /\ exists(df[i].path, files)
          /\ normpath(dirname(df[i].path)) # normpath(target_dir_of(df[i]))

\* the rows that are not duplicates and whose source file does not exist
MissingRows ==
    {i \in DOMAIN df : lower(df[i].duplicate_status) # "duplicate"
                          /\ ~exists(df[i].path, files)}

\* C14: when planning has ended, every non-duplicate row whose file is missing
\* has exactly one entry in the error list and no move, and the moves are those
\* plan_file_moves returns for the inventory without these rows.
C14_MissingSourceSkipped ==
    (tool = "reorganize_media" /\ pc = "execute" /\ move_i = 1)
        => /\ \A i \in MissingRows :
                 /\ Cardinality({e \in DOMAIN errors : errors[e][2] = df[i].path}) = 1
                 /\ \A k \in DOMAIN moves : moves[k][1] # df[i].path
           /\ Len(errors) = Cardinality(MissingRows)
           /\ LET kept == {i \in DOMAIN df : i \notin MissingRows}
                  without == SelectSeq(df, LAMBDA r :
                                 \E i \in kept : df[i] = r)
              IN  moves = plan_file_moves(without, 1,
                              [moves |-> <<>>, errors |-> <<>>,
                               status_counts |-> new_status_counts], files).moves

C14_Witness ==
    /\ tool = "reorganize_media" /\ pc = "execute" /\ move_i = 1
    /\ \E i \in MissingRows :
          /\ \E j \in DOMAIN df, k \in DOMAIN moves : j < i /\ moves[k][1] = df[j].path
          /\ \E j \in DOMAIN df, k \in DOMAIN moves : j > i /\ moves[k][1] = df[j].path

(***************************************************************************)
(* Claims on reorganize_subfolders, continued                              *)
(***************************************************************************)
\* the complete plan of a simulate run over the tree the run began with
SimulatedPlan ==
    LET first == plan_moves(find_subfolders_to_merge(walk_order, 1, <<>>), 1, start_files)
    IN  IF first.moves = <<>> THEN <<>>
        ELSE first.moves \o reorganize_by_location(first.moves, start_files).moves

\* C15: the complete plan of a merge run (pass-1 moves followed by pass-2
\* moves) is the plan a simulate run computes for the same initial tree,
\* whether the run is a simulate run or an apply run.
C15_SamePlanInBothModes ==
    (tool = "reorganize_subfolders" /\ pc \in {"remove", "done"})
        => moves = SimulatedPlan

\* the places in walk_order of the directories of date d, and the location of
\* a directory
DirsOfDate(d) ==
    {i \in DOMAIN walk_order :
        parse_directory_name(walk_order[i][Len(walk_order[i])]).date = d}
LocationOf(dir) == parse_directory_name(dir[Len(dir)]).location
FirstOf(I) == CHOOSE i \in I : \A j \in I : i <= j

\* the target the rule of C16 names for a date with several directories (every
\* directory of the model has a location suffix)
ExpectedTarget(d) ==
    LET I == DirsOfDate(d)
        K == {k \in DOMAIN preferred_locations :
                 \E i \in I : LocationOf(walk_order[i]) = preferred_locations[k]}
    IN  IF K # {}
        THEN walk_order[FirstOf({i \in I :
                 LocationOf(walk_order[i]) = preferred_locations[FirstOf(K)]})]
        ELSE walk_order[FirstOf(I)]

WindowPlanned ==
    /\ tool = "reorganize_subfolders"
    /\ \/ pc = "execute_additional" /\ move_i = 1
       \/ pc = "remove" /\ additional_moves = <<>> /\ removal_seen = {}

DateOf(dir) == parse_directory_name(dir[Len(dir)]).date

\* the directories of a location that the window merge walks: the target
\* directories of the pass-1 moves
WindowDirs(loc) ==
    {dirname(moves[k][2]) : k \in {j \in DOMAIN moves : LocationOf(dirname(moves[j][2])) = loc}}

\* the directory walked just before `dir`, and whether `dir` is within the
\* window of it
HasPrevious(dir, ds) == \E e \in ds : DateOf(e) < DateOf(dir)
Previous(dir, ds) ==
    CHOOSE e \in ds : /\ DateOf(e) < DateOf(dir)
                      /\ \A x \in ds : DateOf(x) < DateOf(dir) => DateOf(x) <= DateOf(e)
Merged(dir, ds) ==
    HasPrevious(dir, ds) /\ DateOf(dir) - DateOf(Previous(dir, ds)) <= 14

\* the anchor carried forward to `dir`
RECURSIVE Anchor(_, _)
Anchor(dir, ds) == IF Merged(dir, ds) THEN Anchor(Previous(dir, ds), ds) ELSE dir

\* C17: the pass-2 moves are, for every location, the moves of every file of
\* every directory within 14 days of the directory before it into the anchor
\* carried forward to it; a directory further than 14 days from the one before
\* it is a new anchor and none of its files is planned; the directories of a
\* location are walked by ascending date.
C17_WindowChain ==
    WindowPlanned =>
        /\ Range(additional_moves) =
              UNION {UNION {{<<p, join(Anchor(dir, WindowDirs(loc)), basename(p)),
                                 Anchor(dir, WindowDirs(loc))>> :
                                p \in {q \in DOMAIN files : dirname(q) = dir}} :
                            dir \in {e \in WindowDirs(loc) : Merged(e, WindowDirs(loc))}} :
                     loc \in Locations}
        /\ \A j, k \in DOMAIN additional_moves :
              (j < k /\ LocationOf(dirname(additional_moves[j][1]))
                            = LocationOf(dirname(additional_moves[k][1])))
                  => DateOf(dirname(additional_moves[j][1]))
                         <= DateOf(dirname(additional_moves[k][1]))

\* the chain 05-01, 05-10, 05-19 of Royan: 05-19 goes into 05-01, 18 days away
C17_Witness ==
    /\ WindowPlanned
    /\ \E k \in DOMAIN additional_moves :
          /\ dirname(additional_moves[k][1]) = source_dir \o <<DirName(18, "Royan")>>
          /\ additional_moves[k][3] = source_dir \o <<DirName(0, "Royan")>>

\* C18: every pass-2 move goes into the anchor carried forward to its source
\* directory, under the file's own name; no directory that receives a file in
\* pass 2 is the source directory of a pass-2 move; and no pass-2 move has its
\* source as its destination.
C18_AnchorsStay ==
    WindowPlanned =>
        /\ \A k \in DOMAIN additional_moves :
              LET mv == additional_moves[k]
              IN  /\ dirname(mv[2]) = mv[3]
                  /\ basename(mv[2]) = basename(mv[1])
                  /\ mv[3] = Anchor(dirname(mv[1]), WindowDirs(LocationOf(dirname(mv[1]))))
                  /\ <<normpath(dirname(mv[1])), basename(mv[1])>>
                         # <<normpath(dirname(mv[2])), basename(mv[2])>>
        /\ \A j, k \in DOMAIN additional_moves :
              dirname(additional_moves[j][1]) # dirname(additional_moves[k][2])

\* an anchor listed twice (two pass-1 moves went into it) whose own files are
\* computed to stay where they are, while a later directory merges into it
C18_Witness ==
    /\ WindowPlanned
    /\ \E j, k \in DOMAIN moves :
          /\ j # k /\ moves[j][3] = moves[k][3]
          /\ \E p \in DOMAIN files : dirname(p) = moves[j][3]
          /\ \E a \in DOMAIN additional_moves : additional_moves[a][3] = moves[j][3]

\* C19: a step of a merge run removes a directory only in apply mode and only
\* if every planned move whose source lies in that directory was executed and
\* reported as moved.
C19_RemovedAfterMovesSucceeded ==
    [][tool = "reorganize_subfolders"
          => \A d \in dirs \ dirs' :
                /\ prod
                /\ \A k \in DOMAIN moves :
                      dirname(moves[k][1]) = d
                          => k \in DOMAIN outcomes /\ outcomes[k] = <<moves[k][1], "Moved">>]_vars

(***************************************************************************)
(* Claims on remove_duplicates, continued                                  *)
(***************************************************************************)
\* C20: two scanned files of one size of at most 2N bytes are in one
\* fingerprint group only if they hold the same bytes at every offset.
C20_SmallFilesFullContent ==
    Grouped =>
        \A p, q \in Range(scan_order) :
            (SameGroup(p, q) /\ files[p].size = files[q].size
                /\ files[p].size <= 2 * chunk_size)
                => files[p].ones = files[q].ones

(***************************************************************************)
(* Claims on the planner, continued                                        *)
(***************************************************************************)
\* the home country test on a cell as it stands, and on the cell without the
\* blanks around it
IsHomeAsCell(country) == lower(country) = "france"
IsHomeTrimmed(country) == lower(strip(country)) = "france"

\* the segment of the claim built from the cells as they stand
SegmentAsCells(row) ==
    IF row.city = NA THEN row.photo_date.str
    ELSE IF row.country = NA \/ IsHomeAsCell(row.country)
    THEN row.photo_date.str \o "_" \o row.city
    ELSE row.photo_date.str \o "_" \o row.country \o "_" \o row.city

\* the segment of the claim built from the cells without the blanks around them
SegmentTrimmed(row) ==
    IF row.city = NA THEN row.photo_date.str
    ELSE IF row.country = NA \/ IsHomeTrimmed(row.country)
    THEN row.photo_date.str \o "_" \o strip(row.city)
    ELSE row.photo_date.str \o "_" \o strip(row.country) \o "_" \o strip(row.city)

\* C21 as claimed: every planned move goes into root/<year>/<segment>, the
\* segment being the date alone when the city is unknown, date_city when the
\* country is unknown or is France in any letter case, date_country_city
\* otherwise, with country and city as the cells hold them.
C21_DestinationByLocation ==
    tool = "reorganize_media" =>
        \A k \in DOMAIN moves :
            \E i \in DOMAIN df :
                /\ df[i].path = moves[k][1]
                /\ dirname(moves[k][2])
                       = root_dir \o <<df[i].photo_date.year, SegmentAsCells(df[i])>>

\* C21 as amended: the same with country and city taken without the blanks
\* around them, in the comparison with France and in the directory name.
C21_DestinationByTrimmedLocation ==
    tool = "reorganize_media" =>
        \A k \in DOMAIN moves :
            \E i \in DOMAIN df :
                /\ df[i].path = moves[k][1]
                /\ dirname(moves[k][2])
                       = root_dir \o <<df[i].photo_date.year, SegmentTrimmed(df[i])>>

\* a move planned for a row of 2023 with a padded city and a foreign country
C21_Witness ==
    /\ tool = "reorganize_media" /\ pc = "execute"
    /\ \E k \in DOMAIN moves :
          \E i \in DOMAIN df :
              /\ df[i].path = moves[k][1]
              /\ df[i].photo_date.year = "2023"
              /\ df[i].city = "Paris " /\ df[i].country = "Italy"
              /\ dirname(moves[k][2]) = root_dir \o <<"2023", "2023-12-31_Italy_Paris">>

\* the row lies in the directory the claim computes for it
InPlace(row) ==
    normpath(dirname(row.path))
        = normpath(root_dir \o <<row.photo_date.year, SegmentTrimmed(row)>>)

\* C22: the planning of a row that is no duplicate, whose file exists and lies
\* in its destination directory (paths normalised) leaves the plan as it is
\* and adds one to the skipped count, whether its status is ok or error; and
\* no move of the plan has the same source and destination directory.
C22_InPlaceRowsSkipped ==
    [][tool = "reorganize_media" /\ pc = "plan" /\ row_i' = row_i + 1
          => /\ (/\ lower(df[row_i].duplicate_status) \in {"ok", "error"}
                 /\ exists(df[row_i].path, files)
                 /\ InPlace(df[row_i]))
                    => /\ moves' = moves
                       /\ errors' = errors
                       /\ files' = files
                       /\ status_counts'["skipped"] = status_counts["skipped"] + 1
             /\ \A k \in DOMAIN moves' :
                   normpath(dirname(moves'[k][1])) # normpath(dirname(moves'[k][2]))]_vars

\* the first plan is complete: a row of status error, its path written with a
\* "." component, lies in its target directory; it was skipped and not renamed
C22_Witness ==
    /\ tool = "reorganize_media" /\ pc = "execute" /\ pass = 1
    /\ \E i \in DOMAIN df :
          /\ lower(df[i].duplicate_status) = "error"
          /\ dirname(df[i].path) # normpath(dirname(df[i].path))
          /\ InPlace(df[i])
          /\ exists(df[i].path, files)
          /\ status_counts["skipped"] = 1
          /\ \A k \in DOMAIN moves : moves[k][1] # df[i].path

(***************************************************************************)
(* Claims on reorganize_subfolders: the complete plan                      *)
(***************************************************************************)
\* C23: in the complete plan of a merge run (pass-1 moves followed by pass-2
\* moves) no two moves have the same destination path and no two moves have
\* the same source path.
C23_PlanPathsUnique ==
    (tool = "reorganize_subfolders" /\ pc \in {"remove", "done"})
        => \A j, k \in DOMAIN moves :
              j # k => /\ moves[j][1] # moves[k][1]
                       /\ moves[j][2] # moves[k][2]

(***************************************************************************)
(* Claims on execute_moves of reorganize_media                             *)
(***************************************************************************)
Counted(res) == res.successful + res.failed + res.skipped

\* C24: in apply mode every iteration of execute_moves adds one to exactly one
\* of successful, failed, skipped, so that the three add up to the number of
\* moves when it returns; in simulate mode successful stays 0; no counter
\* ever decreases during a run.
C24_EveryMoveCountedOnce ==
    [][tool = "reorganize_media" /\ pc = "execute"
          => /\ results'.successful >= results.successful
             /\ results'.failed >= results.failed
             /\ results'.skipped >= results.skipped
             /\ (prod /\ move_i' = move_i + 1) => Counted(results') = Counted(results) + 1
             /\ (prod /\ pc' = "done") => Counted(results') = Len(moves')
             /\ ~prod => results'.successful = 0]_vars

\* an apply run has returned with a move counted in each of the three counters
C24_Witness ==
    /\ tool = "reorganize_media" /\ pc = "done" /\ prod
    /\ results.successful > 0 /\ results.failed > 0 /\ results.skipped > 0
    /\ Len(moves) = MaxMoves

(***************************************************************************)
(* Claims on the checkpoints of media_inventory                            *)
(***************************************************************************)
\* C25: in a run resumed from the checkpoint list, every file processed gets
\* the Duplicate Status that one uninterrupted run over all the files, in the
\* same order, gives it.
C25_ResumeKeepsStatus ==
    (tool = "media_inventory" /\ enable_checkpoints /\ run = 2 /\ pc = "scan")
        => \A j \in DOMAIN media_files :
              media_files[j].status
                  = classify(walked, 1, EmptyMap)[unprocessed(walked, checkpoint)[j]]

\* C26: no directory that is the destination directory of a planned move, of
\* the first pass or of the second, is queued for removal.
C26_TargetsNeverQueued ==
    tool = "reorganize_subfolders"
        => /\ \A k \in DOMAIN moves : dirname(moves[k][2]) \notin empty_dirs
           /\ \A k \in DOMAIN additional_moves :
                 dirname(additional_moves[k][2]) \notin empty_dirs

(***************************************************************************)
(* Claims on the registry, continued                                       *)
(***************************************************************************)
\* the calls of get_duplicate_status made so far on the registry with `name`,
\* and those among them that returned `status`
CallsWith(mf, name) == {j \in DOMAIN mf : mf[j].file_name = name}
CallsReturning(mf, name, status) == {j \in CallsWith(mf, name) : mf[j].status = status}

\* the registry agrees with the calls made on it since it was empty
RegistryAgrees(registry, mf) ==
    /\ DOMAIN registry = {mf[j].file_name : j \in DOMAIN mf}
    /\ \A name \in DOMAIN registry :
          LET entry == registry[name]
          IN  /\ entry.count = Cardinality(CallsWith(mf, name))
              /\ entry.sizes # {}
              /\ entry.sizes = {mf[j].size : j \in CallsWith(mf, name)}
              /\ Cardinality(entry.sizes) <= entry.count
              /\ Cardinality(CallsReturning(mf, name, "ok")) = 1
              /\ Cardinality(CallsReturning(mf, name, "error"))
                     = Cardinality(entry.sizes) - 1
              /\ Cardinality(CallsReturning(mf, name, "duplicate"))
                     = entry.count - Cardinality(entry.sizes)

\* C27: after every call of get_duplicate_status on a registry that started
\* empty, each name of the registry has as count the number of calls made with
\* it, a non-empty set of at most count sizes, one call that returned ok,
\* (number of sizes - 1) that returned error and (count - number of sizes)
\* that returned duplicate; and the call left the entry of every other name
\* as it was.
C27_RegistryCounts ==
    [][tool = "media_inventory"
          => /\ RegistryAgrees(file_registry', media_files')
             /\ (pc = "scan" /\ idx' = idx + 1)
                   => \A name \in DOMAIN file_registry :
                         name # files_to_process[idx].file_name
                             => /\ name \in DOMAIN file_registry'
                                /\ file_registry'[name] = file_registry[name]]_vars

\* a.jpg was seen twice, in two sizes; b.jpg is in the registry as well
C27_Witness ==
    /\ tool = "media_inventory" /\ pc = "scan" /\ ~enable_checkpoints
    /\ DOMAIN file_registry = {"a.jpg", "b.jpg"}
    /\ file_registry["a.jpg"].count = 2
    /\ Cardinality(file_registry["a.jpg"].sizes) = 2
    /\ Cardinality(CallsReturning(media_files, "a.jpg", "error")) = 1

(***************************************************************************)
(* Claims on the planner: one outcome per row                              *)
(***************************************************************************)
\* what the claim gives a row: excluded as a duplicate, an entry in the error
\* list (its file is not on disk), skipped (it lies in its target directory),
\* or a move
Outcome(row) ==
    IF lower(row.duplicate_status) = "duplicate" THEN "duplicate"
    ELSE IF ~exists(row.path, files) THEN "error"
    ELSE IF InPlace(row) THEN "skipped"
    ELSE "move"

\* the rows plan_file_moves has gone through, and those of one outcome
RowsDone == SubSeq(df, 1, row_i - 1)
RowsOf(outcome) == SelectSeq(RowsDone, LAMBDA row : Outcome(row) = outcome)

\* C28: while plan_file_moves runs, the rows it has gone through are, each of
\* them, excluded as a duplicate, or one entry of the error list, or counted
\* once as skipped, or one move, so that their number is the sum of the four;
\* and the moves are those of the rows that move, in the order of the rows.
C28_OneOutcomePerRow ==
    (tool = "reorganize_media" /\ pc = "plan")
        => /\ Len(RowsDone) = status_counts["duplicate"] + Len(errors)
                                  + status_counts["skipped"] + Len(moves)
           /\ status_counts["duplicate"] = Len(RowsOf("duplicate"))
           /\ Len(errors) = Len(RowsOf("error"))
           /\ status_counts["skipped"] = Len(RowsOf("skipped"))
           /\ [k \in DOMAIN moves |-> moves[k][1]]
                 = [k \in DOMAIN RowsOf("move") |-> RowsOf("move")[k].path]

\* every row has been gone through: two rows move, in the order of the rows,
\* and one is skipped
C28_Witness ==
    /\ tool = "reorganize_media" /\ pc = "plan" /\ pass = 1
    /\ row_i = Len(df) + 1
    /\ Len(moves) = 2 /\ status_counts["skipped"] = 1
    /\ moves[1][1] # moves[2][1]

(***************************************************************************)
(* Claims on remove_duplicates: the groups and the files removed           *)
(***************************************************************************)
\* C29: the groups find_duplicates returned hold two files or more each and
\* no file is in two of them; every group gone through had one file chosen
\* for removal, a member of it; and when an apply run is over every group
\* still has one of its files on disk.
C29_GroupsKeepAFile ==
    (tool = "remove_duplicates" /\ pc \in {"process", "done"})
        => /\ \A g \in DOMAIN duplicate_groups :
                 Cardinality(Range(duplicate_groups[g])) >= 2
           /\ \A g, h \in DOMAIN duplicate_groups :
                 g # h => Range(duplicate_groups[g]) \cap Range(duplicate_groups[h]) = {}
           /\ Len(removed) = group_i - 1
           /\ \A g \in DOMAIN removed : removed[g] \in Range(duplicate_groups[g])
           /\ (prod /\ pc = "done")
                 => \A g \in DOMAIN duplicate_groups :
                       \E p \in Range(duplicate_groups[g]) : p \in DOMAIN files

====
